---- MODULE Spec2Model ----
(***************************************************************************)
(* State-machine model of the three on-chain ledger programs of the        *)
(* repository:                                                             *)
(*   - unified-token-program (global state, user accounts with the daily   *)
(*     ME quota, connections with PIN commitments),                        *)
(*   - me-token (registration and the daily ME quota),                     *)
(*   - human-connection (connections with PIN commitments, escrow of 24 ME *)
(*     and the agent bonus).                                               *)
(* Every instruction is one atomic action.  The runtime aborts a failing   *)
(* transaction as a whole, so a rejected instruction changes no account;   *)
(* the model records its outcome in `res`.  Account validation follows the *)
(* order of the Accounts structs: first the accounts are created (init) or *)
(* loaded in field order, then the constraints are checked in field order, *)
(* then the handler runs.                                                  *)
(* Token amounts are held in whole tokens: every amount these handlers     *)
(* move is a whole number of tokens times 10^decimals, also when the       *)
(* scaling of a lock amount wraps around 2^64 (see Amount).                *)
(***************************************************************************)
EXTENDS Integers, FiniteSets, Sequences, TLC

VARIABLES
    program,             \* the deployed program the behaviour's transactions address
    now,                 \* Clock::get()?.unix_timestamp
    res,                 \* the last instruction processed and its outcome
    global_state,        \* unified-token-program: GlobalState PDA
    user_account,        \* unified-token-program: UserAccount PDA per user_id_hash
    connection_account,  \* unified-token-program: ConnectionAccount PDA per connection_id
    memo_supply,         \* unified-token-program: supply of the MEMO mint
    me_mint_supply,      \* unified-token-program: supply of the personal ME mint per user_id_hash
    user_me_ata,         \* unified-token-program: ME balance of the ATA per personal ME mint and owner
    user_memo_ata,       \* unified-token-program: MEMO balance of the ATA per owner
    me_escrow,           \* unified-token-program: balance of the me_escrow token account
    user_mint_history,   \* unified-token-program: history of the quota per user_id_hash
    user_me_account,     \* me-token: UserMeAccount PDA per user_id_hash
    user_me_wallet,      \* me-token: balance of the me_wallet PDA per user_id_hash
    me_mint_history,     \* me-token: history of the quota per user_id_hash
    connection,          \* human-connection: Connection PDA per connection_id_hash
    escrow_me_wallet,    \* human-connection: balance of the escrow PDA per connection_id_hash
    user_a_me_wallet,    \* human-connection: balance of the ME wallets that fund connections
    user_memo_wallet,    \* human-connection: balance of the memo_wallet PDA per user PDA
    agent_memo_wallet,   \* human-connection: balance of the agent_memo_wallet PDA per agent
    connection_reward    \* human-connection: MEMO minted by the unlocks of a connection so far

vars == <<program, now, res, global_state, user_account, connection_account,
          memo_supply, me_mint_supply, user_me_ata, user_memo_ata, me_escrow,
          user_mint_history, user_me_account, user_me_wallet, me_mint_history, connection,
          escrow_me_wallet, user_a_me_wallet, user_memo_wallet, agent_memo_wallet,
          connection_reward>>

utp_vars == <<global_state, user_account, connection_account, memo_supply,
              me_mint_supply, user_me_ata, user_memo_ata, me_escrow,
              user_mint_history>>
me_vars  == <<user_me_account, user_me_wallet, me_mint_history>>
hc_vars  == <<connection, escrow_me_wallet, user_a_me_wallet, user_memo_wallet,
              agent_memo_wallet, connection_reward>>

----------------------------------------------------------------------------
(* Program constants *)

\* unified-token-program
INITIAL_ME_MINT == 48
DAILY_ME_LIMIT == 24
DAY_IN_SECONDS == 86400
CONNECTION_MEMO_REWARD == 8
MAX_USER_ID_LEN == 64

\* me-token
INITIAL_MINT == 48
DAILY_LIMIT == 24
ME_DAY_IN_SECONDS == 86400

\* human-connection
ME_LOCK_AMOUNT == 24
MEMO_REWARD_AMOUNT == 8

----------------------------------------------------------------------------
(* Bounds and input sets *)

\* The clock is observed at the start, one second before and exactly at the
\* end of the first day, and MaxDays whole days after the start.
MaxDays == 5

Instants == {0, DAY_IN_SECONDS - 1, DAY_IN_SECONDS, MaxDays * DAY_IN_SECONDS}

\* user_id_hash arguments of unified-token-program (they seed the user PDAs)
UserIdHashes == {1, 2, 3}

\* user_id_hash arguments of initialize_user at a given time: the third user
\* registers at the first instant or not at all
RegistrationHashes(clock) == IF clock = 0 THEN UserIdHashes ELSE {1, 2}

\* the UserAccount keys handed to create_connection as user_a_account and as
\* user_b_account; the third user account stays outside every connection
UserAKeys == {1}
UserBKeys == {1, 2}

\* user_id_hash arguments of me-token
MeUserIdHashes == {1, 2}

\* user_id arguments: a name and its length in bytes
UserIds == {[name |-> "alice", len |-> 5], [name |-> "long", len |-> 65]}

\* connection_id arguments of unified-token-program
ConnectionIds == {1}

\* connection_id_hash arguments of human-connection
ConnectionIdHashes == {1, 2}

\* connection_id arguments of human-connection
HcConnectionIds == {"c1"}

\* user PDAs handed to human-connection
UserPdas == {1, 2, 3}

\* the user PDAs handed to initialize_connection as user_a_pda and as
\* user_b_pda; the third PDA stays outside every connection
UserAPdas == {1}
UserBPdas == {1, 2}

\* agent accounts handed to unlock_with_pin
Agents == {1}

\* ME wallets handed to initialize_connection as user_a_me_wallet: wallet 1
\* holds the initial grant of a me-token registration, wallet 2 is empty
MeWallets == {1, 2}

\* admins that may sign initialize_global: whoever signs first becomes the
\* admin
Admins == {1, 2}

\* the wallets that sign as payer: wallet h belongs to the person whose user
\* id hashes to h and signs that user's initialize_user, which creates the
\* wallet's ATA of the user's ME mint and its ATA of the MEMO mint
Payers == UserIdHashes

\* mint_daily_me requests, <<user_id_hash, payer>>: each user's own wallet
\* asks for the user's quota, and wallet 2 asks for user 1's quota with an ATA
\* of user 1's ME mint (the Associated Token Program creates an ATA of an
\* existing mint for whoever asks)
MintRequests == {<<1, 1>>, <<2, 2>>, <<1, 2>>}

\* unlock_connection requests, <<user_account, payer>>: each user's own
\* wallet signs for the user's account, and wallet 2 signs for user 1's account
UnlockRequests == {<<1, 1>>, <<2, 2>>, <<3, 3>>, <<1, 2>>}

\* PINs submitted to the unlock instructions
Pins == {1, 2, 3}

NoAccount == [initialized |-> FALSE]

NoResult == [op |-> "none", err |-> "Ok", acct |-> 0, conn |-> 0, pin |-> 0, payer |-> 0]

Result(op, err, acct, conn, pin) ==
    [op |-> op, err |-> err, acct |-> acct, conn |-> conn, pin |-> pin, payer |-> 0]

\* the outcome of an instruction together with the payer that signed it
SignedBy(result, payer) == [result EXCEPT !.payer = payer]

\* The history of a user's quota, kept beside the accounts: when the user
\* registered, how many daily mints have succeeded and when the last one did.
NoHistory == [registered_at |-> -1, mints |-> 0, last_mint |-> -1]

HistoryOfRegistration(clock) ==
    [registered_at |-> clock, mints |-> 0, last_mint |-> -1]

HistoryOfMint(history, clock) ==
    [history EXCEPT !.mints = @ + 1, !.last_mint = clock]

----------------------------------------------------------------------------
(* Pure helpers *)

\* SHA-256 of a PIN: a one-way function without collisions on the PINs used
Sha256(pin) == (pin * 37 + 11) % 97

\* a u64 amount argument of wraps * 2^55 + tokens whole tokens; since
\* 2^55 * 10^9 = 5^9 * 2^64, its product with 10^9 is tokens * 10^9 modulo 2^64
Amount(wraps, tokens) == [wraps |-> wraps, tokens |-> tokens]

\* the u64 that the first eight bytes of a user_id_hash encode: hash 1 starts
\* with 0, hash 2 with 72 (more than the initial grant, less than the grant
\* plus one daily mint), hash 3 with 2^55 + 24
LeadingU64(user_id_hash) ==
    CASE user_id_hash = 1 -> Amount(0, 0)
      [] user_id_hash = 2 -> Amount(0, 72)
      [] user_id_hash = 3 -> Amount(1, 24)

\* instruction data of lock_me_for_memo: the amount alone (no user_id_hash
\* can be read, written 0), or 32 bytes and more that are a user_id_hash and
\* begin with the amount
LockData ==
    {[amount |-> Amount(0, 24), user_id_hash |-> 0]}
    \cup {[amount |-> LeadingU64(h), user_id_hash |-> h] : h \in UserIdHashes}

\* the commitments handed to the connection-creating instructions: PIN A is
\* 1 and PIN B is 2, so PIN 3 is wrong for both sides
PinAHashes == {Sha256(1)}
PinBHashes == {Sha256(2)}

\* Rust's integer division truncates towards zero
TruncDiv(a, b) == IF a >= 0 THEN a \div b ELSE -((-a) \div b)

Min(a, b) == IF a <= b THEN a ELSE b

\* user_id copied into the fixed [u8; 64] field: at most 64 bytes are kept
UserIdArray(user_id) ==
    [name |-> user_id.name, len |-> Min(user_id.len, MAX_USER_ID_LEN)]

----------------------------------------------------------------------------
(* unified-token-program *)

Utp == program = "unified_token_program"

\* the MEMO mint PDA, seeds [b"memo_mint"]
MemoMint == [seed |-> "memo_mint", hash |-> 0]

\* the personal ME mint PDA of a user, seeds [b"me_mint", user_id_hash]
MeMint(user_id_hash) == [seed |-> "me_mint", hash |-> user_id_hash]

\* the me_escrow token account PDA, seeds [b"me_escrow"]
MeEscrow == [seed |-> "me_escrow", hash |-> 0]

\* InitializeGlobal.me_escrow is created with token::mint = memo_mint
MeEscrowMint == MemoMint

\* faulty variant: the connection counter starts at 1
NewGlobalStateCountingFromOne(admin) ==
    [memo_mint         |-> MemoMint,
     me_escrow         |-> MeEscrow,
     admin             |-> admin,
     total_users       |-> 0,
     total_connections |-> 1]

\* the account initialize_global writes
NewGlobalState(admin) ==
    [memo_mint         |-> MemoMint,
     me_escrow         |-> MeEscrow,
     admin             |-> admin,
     total_users       |-> 0,
     total_connections |-> 0]

\* faulty variant: global_state is written again when it already exists
InitializeGlobalIfNeeded(admin) ==
    /\ Utp
    /\ global_state' = NewGlobalState(admin)
    /\ res' = Result("initialize_global", "Ok", admin, 0, 0)
    /\ UNCHANGED <<program, now, user_account, connection_account, memo_supply,
                   me_mint_supply, user_me_ata, user_memo_ata, me_escrow, user_mint_history, me_vars,
                   hc_vars>>

\* initialize_global: the three PDAs are created with `init`, which fails
\* when global_state already exists.
InitializeGlobal(admin) ==
    /\ Utp
    /\ IF global_state /= NoAccount
       THEN /\ res' = Result("initialize_global", "AccountAlreadyInUse", admin, 0, 0)
            /\ UNCHANGED global_state
       ELSE /\ global_state' = NewGlobalState(admin)
            /\ res' = Result("initialize_global", "Ok", admin, 0, 0)
    /\ UNCHANGED <<program, now, user_account, connection_account, memo_supply,
                   me_mint_supply, user_me_ata, user_memo_ata, me_escrow, user_mint_history, me_vars,
                   hc_vars>>

\* faulty variant: the initial grant is not counted against the daily counter
NewUserAccountZeroDaily(user_id, user_id_hash, clock) ==
    [user_id            |-> UserIdArray(user_id),
     last_mint_time     |-> clock,
     me_mint            |-> MeMint(user_id_hash),
     daily_minted_today |-> 0,
     total_me_minted    |-> INITIAL_ME_MINT,
     total_me_locked    |-> 0,
     total_memo_earned  |-> 0,
     connections_count  |-> 0]

\* the account initialize_user writes
NewUserAccount(user_id, user_id_hash, clock) ==
    [user_id            |-> UserIdArray(user_id),
     last_mint_time     |-> clock,
     me_mint            |-> MeMint(user_id_hash),
     daily_minted_today |-> INITIAL_ME_MINT,
     total_me_minted    |-> INITIAL_ME_MINT,
     total_me_locked    |-> 0,
     total_memo_earned  |-> 0,
     connections_count  |-> 0]

\* initialize_user: user_account and me_mint are created with `init` at the
\* PDAs seeded by user_id_hash; global_state is loaded read-only (it is not
\* declared `mut`), so the handler's total_users += 1 is not written back.
\* The payer is wallet user_id_hash, whose two ATAs are created with `init`.
InitializeUser(user_id, user_id_hash) ==
    /\ Utp
    /\ IF user_account[user_id_hash] /= NoAccount
       THEN /\ res' = Result("initialize_user", "AccountAlreadyInUse", user_id_hash, 0, 0)
            /\ UNCHANGED <<user_account, me_mint_supply, user_me_ata>>
       ELSE IF global_state = NoAccount
       THEN /\ res' = Result("initialize_user", "AccountNotInitialized", user_id_hash, 0, 0)
            /\ UNCHANGED <<user_account, me_mint_supply, user_me_ata>>
       ELSE IF ~(user_id.len <= MAX_USER_ID_LEN)
       THEN /\ res' = Result("initialize_user", "UserIdTooLong", user_id_hash, 0, 0)
            /\ UNCHANGED <<user_account, me_mint_supply, user_me_ata>>
       ELSE /\ user_account' = [user_account EXCEPT
                                   ![user_id_hash] = NewUserAccount(user_id, user_id_hash, now)]
            /\ me_mint_supply' = [me_mint_supply EXCEPT
                                     ![user_id_hash] = @ + INITIAL_ME_MINT]
            /\ user_me_ata' = [user_me_ata EXCEPT
                                  ![user_id_hash][user_id_hash] = @ + INITIAL_ME_MINT]
            /\ res' = Result("initialize_user", "Ok", user_id_hash, 0, 0)
    /\ UNCHANGED <<program, now, global_state, connection_account, memo_supply,
                   user_memo_ata, me_escrow, me_vars, hc_vars>>
    /\ user_mint_history' =
          IF res'.err = "Ok"
          THEN [user_mint_history EXCEPT ![user_id_hash] = HistoryOfRegistration(now)]
          ELSE user_mint_history

\* faulty variant: a started day counts as a whole day
DaysPassedRoundedUp(clock, last_mint_time) ==
    TruncDiv(clock - last_mint_time + DAY_IN_SECONDS - 1, DAY_IN_SECONDS)

\* mint_daily_me, lines 105-107
DaysPassed(clock, last_mint_time) ==
    TruncDiv(clock - last_mint_time, DAY_IN_SECONDS)

\* faulty variant: the reset forgets to restart the quota window
ResetDailyKeepTime(acc, clock) ==
    IF TruncDiv(clock - acc.last_mint_time, DAY_IN_SECONDS) > 0
    THEN [acc EXCEPT !.daily_minted_today = 0]
    ELSE acc

\* mint_daily_me, lines 109-113: the reset of the daily counter
ResetDaily(acc, clock) ==
    IF DaysPassed(clock, acc.last_mint_time) > 0
    THEN [acc EXCEPT !.daily_minted_today = 0, !.last_mint_time = clock]
    ELSE acc

\* faulty variant: twice the rest of the daily limit is minted
ToMintTwice(acc) ==
    2 * (DAILY_ME_LIMIT - acc.daily_minted_today)

\* mint_daily_me, lines 121-123
ToMint(acc) ==
    Min(DAILY_ME_LIMIT - acc.daily_minted_today, DAILY_ME_LIMIT)

\* faulty variant: the lifetime total is overwritten with the minted amount
CreditDailyOverwriteTotal(acc, to_mint) ==
    [acc EXCEPT !.daily_minted_today = @ + to_mint,
                !.total_me_minted = to_mint]

\* mint_daily_me, lines 146-147
CreditDaily(acc, to_mint) ==
    [acc EXCEPT !.daily_minted_today = @ + to_mint,
                !.total_me_minted = @ + to_mint]

\* faulty variant: a call rejected at the limit still restarts the quota window
MintDailyMeRestartingOnReject(user_id_hash, payer) ==
    /\ Utp
    /\ IF user_account[user_id_hash] = NoAccount
       THEN /\ res' = SignedBy(Result("mint_daily_me", "AccountNotInitialized",
                                      user_id_hash, 0, 0), payer)
            /\ UNCHANGED <<user_account, me_mint_supply, user_me_ata>>
       ELSE LET acc == ResetDaily(user_account[user_id_hash], now) IN
            IF ~(acc.daily_minted_today < DAILY_ME_LIMIT)
            THEN /\ res' = SignedBy(Result("mint_daily_me", "DailyLimitReached",
                                           user_id_hash, 0, 0), payer)
                 /\ user_account' = [user_account EXCEPT
                                        ![user_id_hash] = [acc EXCEPT !.last_mint_time = now]]
                 /\ UNCHANGED <<me_mint_supply, user_me_ata>>
            ELSE /\ user_account' = [user_account EXCEPT
                                        ![user_id_hash] = CreditDaily(acc, ToMint(acc))]
                 /\ me_mint_supply' = [me_mint_supply EXCEPT
                                          ![user_id_hash] = @ + ToMint(acc)]
                 /\ user_me_ata' = [user_me_ata EXCEPT
                                       ![user_id_hash][payer] = @ + ToMint(acc)]
                 /\ res' = SignedBy(Result("mint_daily_me", "Ok", user_id_hash, 0, 0),
                                    payer)
    /\ UNCHANGED <<program, now, global_state, connection_account, memo_supply,
                   user_memo_ata, me_escrow, me_vars, hc_vars>>
    /\ user_mint_history' =
          IF res'.err = "Ok"
          THEN [user_mint_history EXCEPT ![user_id_hash] = HistoryOfMint(@, now)]
          ELSE user_mint_history

\* mint_daily_me: user_account and me_mint are the PDAs seeded by
\* user_id_hash; user_me_ata is the payer's ATA of that mint, and the payer is
\* whoever signs.
MintDailyMe(user_id_hash, payer) ==
    /\ Utp
    /\ IF user_account[user_id_hash] = NoAccount
       THEN /\ res' = SignedBy(Result("mint_daily_me", "AccountNotInitialized",
                                      user_id_hash, 0, 0), payer)
            /\ UNCHANGED <<user_account, me_mint_supply, user_me_ata>>
       ELSE LET acc == ResetDaily(user_account[user_id_hash], now) IN
            IF ~(acc.daily_minted_today < DAILY_ME_LIMIT)
            THEN /\ res' = SignedBy(Result("mint_daily_me", "DailyLimitReached",
                                           user_id_hash, 0, 0), payer)
                 /\ UNCHANGED <<user_account, me_mint_supply, user_me_ata>>
            ELSE /\ user_account' = [user_account EXCEPT
                                        ![user_id_hash] = CreditDaily(acc, ToMint(acc))]
                 /\ me_mint_supply' = [me_mint_supply EXCEPT
                                          ![user_id_hash] = @ + ToMint(acc)]
                 /\ user_me_ata' = [user_me_ata EXCEPT
                                       ![user_id_hash][payer] = @ + ToMint(acc)]
                 /\ res' = SignedBy(Result("mint_daily_me", "Ok", user_id_hash, 0, 0),
                                    payer)
    /\ UNCHANGED <<program, now, global_state, connection_account, memo_supply,
                   user_memo_ata, me_escrow, me_vars, hc_vars>>
    /\ user_mint_history' =
          IF res'.err = "Ok"
          THEN [user_mint_history EXCEPT ![user_id_hash] = HistoryOfMint(@, now)]
          ELSE user_mint_history

\* lock_me_for_memo, line 158
AmountPositive(amount) == amount.wraps > 0 \/ amount.tokens > 0

\* lock_me_for_memo, line 160: amount * 10^9 exceeds u64 exactly when the
\* amount has a 2^55 part (its tokens part is far below 2^64 / 10^9)
ScaleOverflows(amount) == amount.wraps > 0

\* lock_me_for_memo, line 160: the whole tokens that amount_with_decimals
\* stands for; when the multiplication wraps, the 2^55 part vanishes
AmountWithDecimals(amount) == amount.tokens

\* the value of the u64 amount in whole tokens
U64(amount) ==
    IF amount.wraps = 0 THEN amount.tokens ELSE amount.wraps * 2^55 + amount.tokens

\* token::transfer, lines 163-173: the token program first refuses a source
\* balance below the amount, then a destination of another mint
TokenTransfer(from_balance, from_mint, to_mint, tokens) ==
    IF from_balance < tokens THEN "InsufficientFunds"
    ELSE IF from_mint /= to_mint THEN "MintMismatch"
    ELSE "Ok"

\* lock_me_for_memo, lines 195-198
CreditLock(acc, amount) ==
    [acc EXCEPT !.total_me_locked = @ + U64(amount),
                !.total_memo_earned = @ + U64(amount)]

\* lock_me_for_memo: the handler's only argument is amount, while
\* LockMeForMemo declares #[instruction(user_id_hash: [u8; 32])], so the
\* user_account PDA is seeded by the first 32 bytes of the same instruction
\* data: with data of 8 bytes (user_id_hash = 0 here) the accounts cannot be
\* resolved, otherwise user_id_hash starts with the bytes of amount.  The
\* source of the transfer is the ATA of the user's ME mint that the user's
\* own wallet holds, its destination me_escrow.  Whether the multiplication of line 160 panics or wraps on
\* overflow depends on the build (overflow_checks).
LockMeForMemo(amount, user_id_hash, overflow_checks) ==
    /\ Utp
    /\ LET err == IF user_id_hash = 0 THEN "InstructionDidNotDeserialize"
                  ELSE IF user_account[user_id_hash] = NoAccount
                  THEN "AccountNotInitialized"
                  ELSE IF ~AmountPositive(amount) THEN "InvalidAmount"
                  ELSE IF ScaleOverflows(amount) /\ overflow_checks
                  THEN "ProgramFailedToComplete"
                  ELSE TokenTransfer(user_me_ata[user_id_hash][user_id_hash],
                                     user_account[user_id_hash].me_mint,
                                     MeEscrowMint, AmountWithDecimals(amount))
       IN  /\ res' = Result("lock_me_for_memo", err, user_id_hash, 0, 0)
           /\ IF err = "Ok"
              THEN /\ user_me_ata' = [user_me_ata EXCEPT
                         ![user_id_hash][user_id_hash] = @ - AmountWithDecimals(amount)]
                   /\ me_escrow' = me_escrow + AmountWithDecimals(amount)
                   /\ memo_supply' = memo_supply + AmountWithDecimals(amount)
                   /\ user_memo_ata' = [user_memo_ata EXCEPT
                         ![user_id_hash] = @ + AmountWithDecimals(amount)]
                   /\ user_account' = [user_account EXCEPT
                         ![user_id_hash] = CreditLock(@, amount)]
              ELSE UNCHANGED <<user_me_ata, me_escrow, memo_supply, user_memo_ata,
                               user_account>>
    /\ UNCHANGED <<program, now, global_state, connection_account, me_mint_supply,
                   user_mint_history, me_vars, hc_vars>>

\* faulty variant: the record is created with the flag of identity A set
NewConnectionAccountUnlockedA(user_a, user_b, pin_a_hash, pin_b_hash, clock) ==
    [user_a          |-> user_a,
     user_b          |-> user_b,
     pin_a_hash      |-> pin_a_hash,
     pin_b_hash      |-> pin_b_hash,
     user_a_unlocked |-> TRUE,
     user_b_unlocked |-> FALSE,
     created_at      |-> clock]

\* the account create_connection writes
NewConnectionAccount(user_a, user_b, pin_a_hash, pin_b_hash, clock) ==
    [user_a          |-> user_a,
     user_b          |-> user_b,
     pin_a_hash      |-> pin_a_hash,
     pin_b_hash      |-> pin_b_hash,
     user_a_unlocked |-> FALSE,
     user_b_unlocked |-> FALSE,
     created_at      |-> clock]

\* CreateConnection, line 543
SameUserConstraint(user_a, user_b) == user_a /= user_b

\* create_connection: connection_account is created with `init` at the PDA
\* seeded by connection_id; user_a_account and user_b_account are the keys of
\* two UserAccount PDAs.
CreateConnection(connection_id, user_a, user_b, pin_a_hash, pin_b_hash) ==
    /\ Utp
    /\ IF connection_account[connection_id] /= NoAccount
       THEN /\ res' = Result("create_connection", "AccountAlreadyInUse", user_a, connection_id, 0)
            /\ UNCHANGED <<connection_account, global_state>>
       ELSE IF \/ user_account[user_a] = NoAccount
               \/ user_account[user_b] = NoAccount
               \/ global_state = NoAccount
       THEN /\ res' = Result("create_connection", "AccountNotInitialized", user_a, connection_id, 0)
            /\ UNCHANGED <<connection_account, global_state>>
       ELSE IF ~SameUserConstraint(user_a, user_b)
       THEN /\ res' = Result("create_connection", "SameUserConnection", user_a, connection_id, 0)
            /\ UNCHANGED <<connection_account, global_state>>
       ELSE /\ connection_account' = [connection_account EXCEPT
                  ![connection_id] = NewConnectionAccount(user_a, user_b, pin_a_hash,
                                                          pin_b_hash, now)]
            /\ global_state' = [global_state EXCEPT !.total_connections = @ + 1]
            /\ res' = Result("create_connection", "Ok", user_a, connection_id, 0)
    /\ UNCHANGED <<program, now, user_account, memo_supply, me_mint_supply,
                   user_me_ata, user_memo_ata, me_escrow, user_mint_history, me_vars, hc_vars>>

\* UnlockConnection, line 567
NotFullyUnlocked(conn) == ~conn.user_a_unlocked \/ ~conn.user_b_unlocked

\* UnlockConnection, line 573
IsParty(conn, user_key) == user_key = conn.user_a \/ user_key = conn.user_b

\* faulty variant: the check of the caller's own flag is missing
VerifyPinNoReplayCheck(conn, user_key, pin) ==
    IF user_key = conn.user_a
    THEN IF Sha256(pin) /= conn.pin_b_hash THEN "InvalidPin" ELSE "Ok"
    ELSE IF Sha256(pin) /= conn.pin_a_hash THEN "InvalidPin" ELSE "Ok"

\* unlock_connection, lines 265-275: the error the PIN check raises, or "Ok"
VerifyPin(conn, user_key, pin) ==
    IF user_key = conn.user_a
    THEN IF Sha256(pin) /= conn.pin_b_hash THEN "InvalidPin"
         ELSE IF conn.user_a_unlocked THEN "AlreadyUnlocked"
         ELSE "Ok"
    ELSE IF Sha256(pin) /= conn.pin_a_hash THEN "InvalidPin"
         ELSE IF conn.user_b_unlocked THEN "AlreadyUnlocked"
         ELSE "Ok"

\* faulty variant: the caller's unlock sets the counterpart's flag as well
SetUnlockedBoth(conn, user_key) ==
    [conn EXCEPT !.user_a_unlocked = TRUE, !.user_b_unlocked = TRUE]

\* unlock_connection, lines 269 and 274
SetUnlocked(conn, user_key) ==
    IF user_key = conn.user_a
    THEN [conn EXCEPT !.user_a_unlocked = TRUE]
    ELSE [conn EXCEPT !.user_b_unlocked = TRUE]

\* faulty variant: the reward is counted, the connection is not
CreditUnlockRewardOnly(acc) ==
    [acc EXCEPT !.total_memo_earned = @ + CONNECTION_MEMO_REWARD]

\* unlock_connection, lines 299-301
CreditUnlock(acc) ==
    [acc EXCEPT !.total_memo_earned = @ + CONNECTION_MEMO_REWARD,
                !.connections_count = @ + 1]

\* unlock_connection: user_account is any UserAccount, user_memo_ata is the
\* payer's ATA of the MEMO mint (it exists once the payer has signed an
\* initialize_user), and the payer is whoever signs.
UnlockConnection(connection_id, user_key, pin, payer) ==
    /\ Utp
    /\ LET conn == connection_account[connection_id]
           err  == IF \/ conn = NoAccount
                      \/ user_account[user_key] = NoAccount
                      \/ user_account[payer] = NoAccount
                   THEN "AccountNotInitialized"
                   ELSE IF ~NotFullyUnlocked(conn) THEN "ConnectionFullyUnlocked"
                   ELSE IF ~IsParty(conn, user_key) THEN "UnauthorizedUser"
                   ELSE VerifyPin(conn, user_key, pin)
       IN  /\ res' = SignedBy(Result("unlock_connection", err, user_key,
                                     connection_id, pin), payer)
           /\ IF err = "Ok"
              THEN /\ connection_account' = [connection_account EXCEPT
                         ![connection_id] = SetUnlocked(conn, user_key)]
                   /\ memo_supply' = memo_supply + CONNECTION_MEMO_REWARD
                   /\ user_memo_ata' = [user_memo_ata EXCEPT
                         ![payer] = @ + CONNECTION_MEMO_REWARD]
                   /\ user_account' = [user_account EXCEPT
                         ![user_key] = CreditUnlock(@)]
              ELSE UNCHANGED <<connection_account, memo_supply, user_memo_ata,
                               user_account>>
    /\ UNCHANGED <<program, now, global_state, me_mint_supply, user_me_ata, me_escrow,
                   user_mint_history, me_vars, hc_vars>>

UtpNext ==
    \/ \E admin \in Admins : InitializeGlobal(admin)
    \/ \E user_id \in UserIds, h \in RegistrationHashes(now) : InitializeUser(user_id, h)
    \/ \E r \in MintRequests : MintDailyMe(r[1], r[2])
    \/ \E d \in LockData, oc \in BOOLEAN : LockMeForMemo(d.amount, d.user_id_hash, oc)
    \/ \E c \in ConnectionIds, a \in UserAKeys, b \in UserBKeys,
          pa \in PinAHashes, pb \in PinBHashes : CreateConnection(c, a, b, pa, pb)
    \/ \E c \in ConnectionIds, r \in UnlockRequests, pin \in Pins :
          UnlockConnection(c, r[1], pin, r[2])

----------------------------------------------------------------------------
(* me-token *)

Me == program = "me_token"

\* the account register_and_mint_initial writes
NewUserMeAccount(user_id, clock) ==
    [user_id            |-> UserIdArray(user_id),
     last_mint_time     |-> clock,
     daily_minted_today |-> INITIAL_MINT,
     total_minted       |-> INITIAL_MINT]

\* register_and_mint_initial: user_me_account, me_mint and user_me_wallet are
\* created with `init` at the PDAs seeded by user_id_hash.
RegisterAndMintInitial(user_id, user_id_hash) ==
    /\ Me
    /\ IF user_me_account[user_id_hash] /= NoAccount
       THEN /\ res' = Result("register_and_mint_initial", "AccountAlreadyInUse",
                             user_id_hash, 0, 0)
            /\ UNCHANGED <<user_me_account, user_me_wallet>>
       ELSE /\ user_me_account' = [user_me_account EXCEPT
                                      ![user_id_hash] = NewUserMeAccount(user_id, now)]
            /\ user_me_wallet' = [user_me_wallet EXCEPT
                                     ![user_id_hash] = @ + INITIAL_MINT]
            /\ res' = Result("register_and_mint_initial", "Ok", user_id_hash, 0, 0)
    /\ me_mint_history' =
          IF res'.err = "Ok"
          THEN [me_mint_history EXCEPT ![user_id_hash] = HistoryOfRegistration(now)]
          ELSE me_mint_history
    /\ UNCHANGED <<program, now, utp_vars, hc_vars>>

\* faulty variant: calendar days are counted instead of elapsed time
MeDaysPassedByDate(clock, last_mint_time) ==
    TruncDiv(clock, ME_DAY_IN_SECONDS) - TruncDiv(last_mint_time, ME_DAY_IN_SECONDS)

\* mint_daily, lines 70-72
MeDaysPassed(clock, last_mint_time) ==
    TruncDiv(clock - last_mint_time, ME_DAY_IN_SECONDS)

\* faulty variant: the counter is reset on the day after the last mint only
MeResetDailyNextDayOnly(acc, clock) ==
    IF MeDaysPassed(clock, acc.last_mint_time) = 1
    THEN [acc EXCEPT !.daily_minted_today = 0, !.last_mint_time = clock]
    ELSE acc

\* mint_daily, lines 74-78
MeResetDaily(acc, clock) ==
    IF MeDaysPassed(clock, acc.last_mint_time) > 0
    THEN [acc EXCEPT !.daily_minted_today = 0, !.last_mint_time = clock]
    ELSE acc

\* mint_daily, lines 86-88
MeToMint(acc) ==
    Min(DAILY_LIMIT - acc.daily_minted_today, DAILY_LIMIT)

\* mint_daily, lines 111-112
MeCreditDaily(acc, to_mint) ==
    [acc EXCEPT !.daily_minted_today = @ + to_mint,
                !.total_minted = @ + to_mint]

MintDaily(user_id_hash) ==
    /\ Me
    /\ IF user_me_account[user_id_hash] = NoAccount
       THEN /\ res' = Result("mint_daily", "AccountNotInitialized", user_id_hash, 0, 0)
            /\ UNCHANGED <<user_me_account, user_me_wallet>>
       ELSE LET acc == MeResetDaily(user_me_account[user_id_hash], now) IN
            IF ~(acc.daily_minted_today < DAILY_LIMIT)
            THEN /\ res' = Result("mint_daily", "DailyLimitReached", user_id_hash, 0, 0)
                 /\ UNCHANGED <<user_me_account, user_me_wallet>>
            ELSE /\ user_me_account' = [user_me_account EXCEPT
                        ![user_id_hash] = MeCreditDaily(acc, MeToMint(acc))]
                 /\ user_me_wallet' = [user_me_wallet EXCEPT
                        ![user_id_hash] = @ + MeToMint(acc)]
                 /\ res' = Result("mint_daily", "Ok", user_id_hash, 0, 0)
    /\ me_mint_history' =
          IF res'.err = "Ok"
          THEN [me_mint_history EXCEPT ![user_id_hash] = HistoryOfMint(@, now)]
          ELSE me_mint_history
    /\ UNCHANGED <<program, now, utp_vars, hc_vars>>

MeNext ==
    \/ \E user_id \in UserIds, h \in MeUserIdHashes : RegisterAndMintInitial(user_id, h)
    \/ \E h \in MeUserIdHashes : MintDaily(h)

----------------------------------------------------------------------------
(* human-connection *)

Hc == program = "human_connection"

\* the account initialize_connection writes
NewConnection(connection_id, user_a, user_b, pin_a_hash, pin_b_hash, clock) ==
    [connection_id   |-> connection_id,
     user_a          |-> user_a,
     user_b          |-> user_b,
     pin_a_hash      |-> pin_a_hash,
     pin_b_hash      |-> pin_b_hash,
     user_a_unlocked |-> FALSE,
     user_b_unlocked |-> FALSE,
     created_at      |-> clock]

\* faulty variant: the locked amount is taken out of the escrow
EscrowAfterLockDebited(balance) == balance - ME_LOCK_AMOUNT

\* initialize_connection, lines 42-53: the escrow balance after the transfer
EscrowAfterLock(balance) == balance + ME_LOCK_AMOUNT

\* initialize_connection: connection and escrow_me_wallet are created with
\* `init` at the PDAs seeded by the connection_id_hash argument; user_a_pda and
\* user_b_pda are unchecked accounts; 24 ME move from user_a_me_wallet to the
\* escrow, which the token program refuses when the wallet holds less.
InitializeConnection(connection_id, connection_id_hash, user_a, user_b, pin_a_hash, pin_b_hash, wallet) ==
    /\ Hc
    /\ IF connection[connection_id_hash] /= NoAccount
       THEN /\ res' = Result("initialize_connection", "AccountAlreadyInUse",
                             user_a, connection_id_hash, 0)
            /\ UNCHANGED <<connection, escrow_me_wallet, user_a_me_wallet>>
       ELSE IF user_a_me_wallet[wallet] < ME_LOCK_AMOUNT
       THEN /\ res' = Result("initialize_connection", "InsufficientFunds",
                             user_a, connection_id_hash, 0)
            /\ UNCHANGED <<connection, escrow_me_wallet, user_a_me_wallet>>
       ELSE /\ connection' = [connection EXCEPT
                  ![connection_id_hash] = NewConnection(connection_id, user_a, user_b,
                                                        pin_a_hash, pin_b_hash, now)]
            /\ user_a_me_wallet' = [user_a_me_wallet EXCEPT
                                       ![wallet] = @ - ME_LOCK_AMOUNT]
            /\ escrow_me_wallet' = [escrow_me_wallet EXCEPT
                                       ![connection_id_hash] = EscrowAfterLock(@)]
            /\ res' = Result("initialize_connection", "Ok", user_a, connection_id_hash, 0)
    /\ UNCHANGED <<program, now, user_memo_wallet, agent_memo_wallet, connection_reward,
                   utp_vars, me_vars>>

\* faulty variant: the check of the caller's own flag is missing
HcVerifyPinNoReplayCheck(conn, user_pubkey, submitted_pin) ==
    IF user_pubkey = conn.user_a
    THEN IF Sha256(submitted_pin) /= conn.pin_b_hash THEN "InvalidPin" ELSE "Ok"
    ELSE IF user_pubkey /= conn.user_b THEN "UnauthorizedUser"
         ELSE IF Sha256(submitted_pin) /= conn.pin_a_hash THEN "InvalidPin"
         ELSE "Ok"

\* unlock_with_pin, lines 77-131: the error the handler raises, or "Ok"
HcVerifyPin(conn, user_pubkey, submitted_pin) ==
    IF user_pubkey = conn.user_a
    THEN IF Sha256(submitted_pin) /= conn.pin_b_hash THEN "InvalidPin"
         ELSE IF conn.user_a_unlocked THEN "AlreadyUnlocked"
         ELSE "Ok"
    ELSE IF user_pubkey /= conn.user_b THEN "UnauthorizedUser"
         ELSE IF Sha256(submitted_pin) /= conn.pin_a_hash THEN "InvalidPin"
         ELSE IF conn.user_b_unlocked THEN "AlreadyUnlocked"
         ELSE "Ok"

\* unlock_with_pin, lines 91 and 131
HcSetUnlocked(conn, user_pubkey) ==
    IF user_pubkey = conn.user_a
    THEN [conn EXCEPT !.user_a_unlocked = TRUE]
    ELSE [conn EXCEPT !.user_b_unlocked = TRUE]

\* faulty variant: the agent is minted the bonus at every unlock
AgentBonusAtEveryUnlock(conn) == MEMO_REWARD_AMOUNT

\* unlock_with_pin, lines 158-182: what the agent is minted
AgentBonus(conn) ==
    IF conn.user_a_unlocked /\ conn.user_b_unlocked THEN MEMO_REWARD_AMOUNT ELSE 0

\* unlock_with_pin: connection is the PDA seeded by the connection_id_hash
\* argument; user_pda and agent are unchecked accounts and nobody but the
\* payer signs.
UnlockWithPin(connection_id_hash, user_pubkey, agent, submitted_pin) ==
    /\ Hc
    /\ LET conn == connection[connection_id_hash]
           err  == IF conn = NoAccount THEN "AccountNotInitialized"
                   ELSE HcVerifyPin(conn, user_pubkey, submitted_pin)
       IN  /\ res' = Result("unlock_with_pin", err, user_pubkey, connection_id_hash,
                            submitted_pin)
           /\ IF err = "Ok"
              THEN LET unlocked == HcSetUnlocked(conn, user_pubkey) IN
                   /\ connection' = [connection EXCEPT ![connection_id_hash] = unlocked]
                   /\ user_memo_wallet' = [user_memo_wallet EXCEPT
                                              ![user_pubkey] = @ + MEMO_REWARD_AMOUNT]
                   /\ agent_memo_wallet' = [agent_memo_wallet EXCEPT
                                               ![agent] = @ + AgentBonus(unlocked)]
                   /\ connection_reward' = [connection_reward EXCEPT
                          ![connection_id_hash] =
                              @ + MEMO_REWARD_AMOUNT + AgentBonus(unlocked)]
              ELSE UNCHANGED <<connection, user_memo_wallet, agent_memo_wallet,
                               connection_reward>>
    /\ UNCHANGED <<program, now, escrow_me_wallet, user_a_me_wallet, utp_vars, me_vars>>

HcNext ==
    \/ \E id \in HcConnectionIds, h \in ConnectionIdHashes, a \in UserAPdas,
          b \in UserBPdas, pa \in PinAHashes, pb \in PinBHashes, w \in MeWallets :
          InitializeConnection(id, h, a, b, pa, pb, w)
    \/ \E h \in ConnectionIdHashes, u \in UserPdas, agent \in Agents, pin \in Pins :
          UnlockWithPin(h, u, agent, pin)

----------------------------------------------------------------------------
(* The clock *)

Tick ==
    /\ \E t \in Instants : t > now /\ now' = t
    /\ UNCHANGED <<program, res, utp_vars, me_vars, hc_vars>>

----------------------------------------------------------------------------
(* Specification *)

\* The three programs are separate deployments with disjoint accounts: a
\* behaviour addresses one of them.
Programs == {"unified_token_program", "me_token", "human_connection"}

Init ==
    /\ program \in Programs
    /\ now = 0
    /\ res = NoResult
    /\ global_state = NoAccount
    /\ user_account = [h \in UserIdHashes |-> NoAccount]
    /\ connection_account = [c \in ConnectionIds |-> NoAccount]
    /\ memo_supply = 0
    /\ me_mint_supply = [h \in UserIdHashes |-> 0]
    /\ user_me_ata = [h \in UserIdHashes |-> [p \in Payers |-> 0]]
    /\ user_memo_ata = [p \in Payers |-> 0]
    /\ me_escrow = 0
    /\ user_mint_history = [h \in UserIdHashes |-> NoHistory]
    /\ me_mint_history = [h \in MeUserIdHashes |-> NoHistory]
    /\ user_me_account = [h \in MeUserIdHashes |-> NoAccount]
    /\ user_me_wallet = [h \in MeUserIdHashes |-> 0]
    /\ connection = [c \in ConnectionIdHashes |-> NoAccount]
    /\ escrow_me_wallet = [c \in ConnectionIdHashes |-> 0]
    /\ user_a_me_wallet = [w \in MeWallets |-> IF w = 1 THEN INITIAL_MINT ELSE 0]
    /\ user_memo_wallet = [u \in UserPdas |-> 0]
    /\ agent_memo_wallet = [a \in Agents |-> 0]
    /\ connection_reward = [c \in ConnectionIdHashes |-> 0]

Next ==
    \/ Tick
    \/ UtpNext
    \/ MeNext
    \/ HcNext

Spec == Init /\ [][Next]_vars

----------------------------------------------------------------------------
(* Steps: the instruction a step processes, read from its outcome *)

InitializeUserStep ==
    res'.op = "initialize_user" /\ \E id \in UserIds : InitializeUser(id, res'.acct)

MintDailyMeStep ==
    res'.op = "mint_daily_me" /\ MintDailyMe(res'.acct, res'.payer)

RegisterStep ==
    /\ res'.op = "register_and_mint_initial"
    /\ \E id \in UserIds : RegisterAndMintInitial(id, res'.acct)

MintDailyStep ==
    res'.op = "mint_daily" /\ MintDaily(res'.acct)

CreateConnectionStep(user_b) ==
    /\ res'.op = "create_connection"
    /\ \E pa \in PinAHashes, pb \in PinBHashes :
          CreateConnection(res'.conn, res'.acct, user_b, pa, pb)

UnlockConnectionStep ==
    /\ res'.op = "unlock_connection"
    /\ UnlockConnection(res'.conn, res'.acct, res'.pin, res'.payer)

InitializeConnectionStep(connection_id, user_b) ==
    /\ res'.op = "initialize_connection"
    /\ \E pa \in PinAHashes, pb \in PinBHashes, w \in MeWallets :
          InitializeConnection(connection_id, res'.conn, res'.acct, user_b, pa, pb, w)

UnlockWithPinStep ==
    /\ res'.op = "unlock_with_pin"
    /\ \E ag \in Agents : UnlockWithPin(res'.conn, res'.acct, ag, res'.pin)

----------------------------------------------------------------------------
(* Daily quota *)

Registered(accounts) == {h \in DOMAIN accounts : accounts[h] /= NoAccount}

\* C1 as stated: in every reachable state every user account of
\* unified-token-program and of me-token has
\* 0 <= daily_minted_today <= DAILY_LIMIT.
C1_DailyAtMostLimit ==
    /\ \A h \in Registered(user_account) :
          /\ 0 <= user_account[h].daily_minted_today
          /\ user_account[h].daily_minted_today <= DAILY_ME_LIMIT
    /\ \A h \in Registered(user_me_account) :
          /\ 0 <= user_me_account[h].daily_minted_today
          /\ user_me_account[h].daily_minted_today <= DAILY_LIMIT

\* C1 amended: in every reachable state a user account that has not minted
\* since its registration (total minted = the initial grant) has
\* daily_minted_today = the initial grant (48), and every other user account
\* has 0 <= daily_minted_today <= DAILY_LIMIT (24).
C1_DailyBound ==
    /\ \A h \in Registered(user_account) :
          LET acc == user_account[h] IN
          IF acc.total_me_minted = INITIAL_ME_MINT
          THEN acc.daily_minted_today = INITIAL_ME_MINT
          ELSE 0 <= acc.daily_minted_today /\ acc.daily_minted_today <= DAILY_ME_LIMIT
    /\ \A h \in Registered(user_me_account) :
          LET acc == user_me_account[h] IN
          IF acc.total_minted = INITIAL_MINT
          THEN acc.daily_minted_today = INITIAL_MINT
          ELSE 0 <= acc.daily_minted_today /\ acc.daily_minted_today <= DAILY_LIMIT

\* a mint_daily_me has just succeeded and another account is still in its
\* registration window
C1_Witness ==
    /\ res.op = "mint_daily_me" /\ res.err = "Ok"
    /\ user_account[res.acct].daily_minted_today = DAILY_ME_LIMIT
    /\ user_account[res.acct].total_me_minted > INITIAL_ME_MINT
    /\ \E h \in Registered(user_account) :
          user_account[h].daily_minted_today = INITIAL_ME_MINT

\* C2: a successful registration at T0 leaves daily_minted_today =
\* total minted = 48 and last_mint_time = T0; for an account that has not
\* minted since, a daily mint at t fails with DailyLimitReached and changes
\* nothing when t - T0 < 86400, and succeeds, mints exactly 24 and leaves
\* total minted = 72 when t - T0 >= 86400.
C2_RegisterThenFirstMint ==
    [][ /\ InitializeUserStep /\ res'.err = "Ok"
           => LET h == res'.acct IN
              /\ user_account'[h].daily_minted_today = 48
              /\ user_account'[h].total_me_minted = 48
              /\ user_account'[h].last_mint_time = now
              /\ me_mint_supply'[h] = me_mint_supply[h] + 48
        /\ MintDailyMeStep /\ res'.acct \in Registered(user_account)
           /\ user_account[res'.acct].total_me_minted = 48
           => LET h == res'.acct IN
              IF now - user_account[h].last_mint_time < 86400
              THEN /\ res'.err = "DailyLimitReached"
                   /\ UNCHANGED <<user_account, me_mint_supply>>
              ELSE /\ res'.err = "Ok"
                   /\ user_account'[h].total_me_minted = 72
                   /\ me_mint_supply'[h] = me_mint_supply[h] + 24
        /\ RegisterStep /\ res'.err = "Ok"
           => LET h == res'.acct IN
              /\ user_me_account'[h].daily_minted_today = 48
              /\ user_me_account'[h].total_minted = 48
              /\ user_me_account'[h].last_mint_time = now
              /\ user_me_wallet'[h] = user_me_wallet[h] + 48
        /\ MintDailyStep /\ res'.acct \in Registered(user_me_account)
           /\ user_me_account[res'.acct].total_minted = 48
           => LET h == res'.acct IN
              IF now - user_me_account[h].last_mint_time < 86400
              THEN /\ res'.err = "DailyLimitReached"
                   /\ UNCHANGED <<user_me_account, user_me_wallet>>
              ELSE /\ res'.err = "Ok"
                   /\ user_me_account'[h].total_minted = 72
                   /\ user_me_wallet'[h] = user_me_wallet[h] + 24
      ]_vars

\* the first daily mint of an account registered at 0 has succeeded exactly
\* one day later
C2_Witness ==
    /\ res.op = "mint_daily_me" /\ res.err = "Ok"
    /\ user_account[res.acct].total_me_minted = 72
    /\ user_account[res.acct].last_mint_time = DAY_IN_SECONDS
    /\ now = DAY_IN_SECONDS

\* C3: for an account with daily_minted_today = DAILY_LIMIT and
\* last_mint_time = T, a daily mint at any t >= T + 86400 succeeds, mints
\* exactly DAILY_LIMIT whatever the number of whole days elapsed, leaves
\* daily_minted_today = DAILY_LIMIT and sets last_mint_time = t.
C3_OneShotReset ==
    [][ /\ MintDailyMeStep /\ res'.acct \in Registered(user_account)
           /\ user_account[res'.acct].daily_minted_today = 24
           /\ now >= user_account[res'.acct].last_mint_time + 86400
           => LET h == res'.acct IN
              /\ res'.err = "Ok"
              /\ user_account'[h].daily_minted_today = 24
              /\ user_account'[h].total_me_minted = user_account[h].total_me_minted + 24
              /\ user_account'[h].last_mint_time = now
              /\ me_mint_supply'[h] = me_mint_supply[h] + 24
        /\ MintDailyStep /\ res'.acct \in Registered(user_me_account)
           /\ user_me_account[res'.acct].daily_minted_today = 24
           /\ now >= user_me_account[res'.acct].last_mint_time + 86400
           => LET h == res'.acct IN
              /\ res'.err = "Ok"
              /\ user_me_account'[h].daily_minted_today = 24
              /\ user_me_account'[h].total_minted = user_me_account[h].total_minted + 24
              /\ user_me_account'[h].last_mint_time = now
              /\ user_me_wallet'[h] = user_me_wallet[h] + 24
      ]_vars

\* an account at its limit has minted again several whole days later: it
\* holds the initial grant and two daily mints, not one mint per idle day
C3_Witness ==
    /\ res.op = "mint_daily_me" /\ res.err = "Ok"
    /\ user_account[res.acct].total_me_minted = 96
    /\ user_account[res.acct].daily_minted_today = 24
    /\ user_account[res.acct].last_mint_time >= 3 * DAY_IN_SECONDS
    /\ now = user_account[res.acct].last_mint_time

----------------------------------------------------------------------------
(* Connections *)

Created(records) == {c \in DOMAIN records : records[c] /= NoAccount}

BothUnlocked(conn) == conn.user_a_unlocked /\ conn.user_b_unlocked

\* the side the handlers treat a party as: identity A when its key is user_a
\* (also when the same key is user_b), identity B otherwise
OwnFlag(conn, user) ==
    IF user = conn.user_a THEN conn.user_a_unlocked ELSE conn.user_b_unlocked

\* the commitment of the counterpart of that side
CounterpartHash(conn, user) ==
    IF user = conn.user_a THEN conn.pin_b_hash ELSE conn.pin_a_hash

Party(conn, user) == user = conn.user_a \/ user = conn.user_b

\* the number of unlock flags set in the records
FlagsSet(records) ==
    Cardinality({c \in Created(records) : records[c].user_a_unlocked})
    + Cardinality({c \in Created(records) : records[c].user_b_unlocked})

\* the number of records with both flags set
Complete(records) ==
    Cardinality({c \in Created(records) : BothUnlocked(records[c])})

RECURSIVE SumOver(_, _)
SumOver(f, S) ==
    IF S = {} THEN 0
    ELSE LET x == CHOOSE y \in S : TRUE IN f[x] + SumOver(f, S \ {x})

\* an unlock_connection step of a registered party of an existing record that
\* submits the secret its counterpart committed to
UtpPartyUnlockStep ==
    /\ UnlockConnectionStep
    /\ res'.conn \in Created(connection_account)
    /\ res'.acct \in Registered(user_account)
    /\ Party(connection_account[res'.conn], res'.acct)
    /\ Sha256(res'.pin) = CounterpartHash(connection_account[res'.conn], res'.acct)

\* the same for unlock_with_pin
HcPartyUnlockStep ==
    /\ UnlockWithPinStep
    /\ res'.conn \in Created(connection)
    /\ Party(connection[res'.conn], res'.acct)
    /\ Sha256(res'.pin) = CounterpartHash(connection[res'.conn], res'.acct)

\* C4 as stated: an unlock by a party whose own flag is already set, with the
\* correct counterpart secret, fails with AlreadyUnlocked whatever happened in
\* between, the counterpart's unlock included.
C4_SecondCallAlreadyUnlocked ==
    [][ /\ UtpPartyUnlockStep /\ OwnFlag(connection_account[res'.conn], res'.acct)
           => res'.err = "AlreadyUnlocked"
        /\ HcPartyUnlockStep /\ OwnFlag(connection[res'.conn], res'.acct)
           => res'.err = "AlreadyUnlocked"
      ]_vars

\* C4 amended: an unlock by a party with the correct counterpart secret
\* succeeds and rewards the party with 8 MEMO while the party's own flag is
\* unset; once the flag is set every such unlock is rejected and changes
\* nothing, with AlreadyUnlocked while the counterpart's flag is unset (and
\* always in human-connection) and with ConnectionFullyUnlocked in
\* unified-token-program once both flags are set; MEMO is minted to a party
\* only by the unlock that sets its own flag.
C4_NoDoubleUnlock ==
    [][ /\ UtpPartyUnlockStep
           => LET c == res'.conn  u == res'.acct IN
              IF OwnFlag(connection_account[c], u)
              THEN /\ res'.err = IF BothUnlocked(connection_account[c])
                                 THEN "ConnectionFullyUnlocked"
                                 ELSE "AlreadyUnlocked"
                   /\ UNCHANGED utp_vars
              ELSE /\ res'.err = "Ok"
                   /\ OwnFlag(connection_account'[c], u)
                   /\ memo_supply' = memo_supply + 8
                   /\ user_account'[u].total_memo_earned =
                         user_account[u].total_memo_earned + 8
        /\ memo_supply' /= memo_supply
           => \E c \in Created(connection_account), u \in UserIdHashes :
                 /\ Party(connection_account[c], u)
                 /\ ~OwnFlag(connection_account[c], u)
                 /\ OwnFlag(connection_account'[c], u)
                 /\ memo_supply' = memo_supply + 8
        /\ HcPartyUnlockStep
           => LET h == res'.conn  u == res'.acct IN
              IF OwnFlag(connection[h], u)
              THEN /\ res'.err = "AlreadyUnlocked"
                   /\ UNCHANGED hc_vars
              ELSE /\ res'.err = "Ok"
                   /\ OwnFlag(connection'[h], u)
                   /\ user_memo_wallet'[u] = user_memo_wallet[u] + 8
        /\ \A u \in UserPdas :
              user_memo_wallet'[u] /= user_memo_wallet[u]
              => \E h \in Created(connection) :
                    /\ Party(connection[h], u)
                    /\ ~OwnFlag(connection[h], u)
                    /\ OwnFlag(connection'[h], u)
                    /\ user_memo_wallet'[u] = user_memo_wallet[u] + 8
      ]_vars

\* a party repeated its unlock with the correct secret after the counterpart
\* had unlocked too
C4_Witness ==
    /\ res.op = "unlock_connection" /\ res.err = "ConnectionFullyUnlocked"
    /\ res.conn \in Created(connection_account)
    /\ Party(connection_account[res.conn], res.acct)
    /\ Sha256(res.pin) = CounterpartHash(connection_account[res.conn], res.acct)

\* what C5 states of an unlock by `user` on the record `conn`, whose outcome
\* is `err` and which leaves the accounts unchanged when `same` holds
CommitmentChecked(conn, user, pin, err, same) ==
    /\ user = conn.user_a /\ ~conn.user_a_unlocked
       => /\ err = "Ok" <=> Sha256(pin) = conn.pin_b_hash
          /\ Sha256(pin) /= conn.pin_b_hash => err = "InvalidPin" /\ same
    /\ user = conn.user_b /\ ~conn.user_b_unlocked
       => /\ err = "Ok" <=> Sha256(pin) = conn.pin_a_hash
          /\ Sha256(pin) /= conn.pin_a_hash => err = "InvalidPin" /\ same

\* C5: an unlock by identity A while unlocked_A is false succeeds if and only
\* if the hash of the submitted secret equals pin_b_hash, an unlock by
\* identity B while unlocked_B is false succeeds if and only if it equals
\* pin_a_hash; with any other secret it fails with InvalidPin and changes
\* neither flag nor any balance.
C5_CommitmentCorrectness ==
    [][ /\ UnlockConnectionStep /\ res'.conn \in Created(connection_account)
           /\ res'.acct \in Registered(user_account)
           => CommitmentChecked(connection_account[res'.conn], res'.acct, res'.pin,
                                res'.err, UNCHANGED utp_vars)
        /\ UnlockWithPinStep /\ res'.conn \in Created(connection)
           => CommitmentChecked(connection[res'.conn], res'.acct, res'.pin,
                                res'.err, UNCHANGED hc_vars)
      ]_vars

\* a step keeps a record's parties, commitments and creation time, never
\* clears a flag and sets at most one, and changes nothing of a record with
\* both flags set
FlagsStep(old, new) ==
    /\ new /= NoAccount
    /\ new.user_a = old.user_a /\ new.user_b = old.user_b
    /\ new.pin_a_hash = old.pin_a_hash /\ new.pin_b_hash = old.pin_b_hash
    /\ new.created_at = old.created_at
    /\ old.user_a_unlocked => new.user_a_unlocked
    /\ old.user_b_unlocked => new.user_b_unlocked
    /\ new.user_a_unlocked = old.user_a_unlocked
       \/ new.user_b_unlocked = old.user_b_unlocked
    /\ BothUnlocked(old) => new = old

\* a record comes into being with both flags false
CreatedLocked(old, new) ==
    old = NoAccount /\ new /= NoAccount
    => ~new.user_a_unlocked /\ ~new.user_b_unlocked

\* C6: a connection record is created with both flags false; every step keeps
\* the record, never turns a flag from true to false and sets at most one
\* flag; once both flags are true the record never changes again and every
\* unlock on it is rejected.
C6_ConnectionStateMachine ==
    [][ /\ \A c \in ConnectionIds :
              /\ c \in Created(connection_account)
                 => FlagsStep(connection_account[c], connection_account'[c])
              /\ CreatedLocked(connection_account[c], connection_account'[c])
        /\ UnlockConnectionStep /\ res'.conn \in Created(connection_account)
           /\ BothUnlocked(connection_account[res'.conn])
           => res'.err /= "Ok" /\ UNCHANGED utp_vars
        /\ \A h \in ConnectionIdHashes :
              /\ h \in Created(connection)
                 => FlagsStep(connection[h], connection'[h])
              /\ CreatedLocked(connection[h], connection'[h])
        /\ UnlockWithPinStep /\ res'.conn \in Created(connection)
           /\ BothUnlocked(connection[res'.conn])
           => res'.err /= "Ok" /\ UNCHANGED hc_vars
      ]_vars

\* a human-connection record with both flags set has just rejected the
\* repeated unlock of a party that submitted the correct secret
C6_Witness ==
    /\ res.op = "unlock_with_pin" /\ res.err = "AlreadyUnlocked"
    /\ res.conn \in Created(connection)
    /\ BothUnlocked(connection[res.conn])

\* C7: in every reachable state the bonus has been minted to the beneficiary
\* exactly once for each connection with both flags set and never for any
\* other: in human-connection the agent wallets hold 8 MEMO per complete
\* connection, and in unified-token-program the MEMO supply is the locked
\* amount plus 8 per flag set plus 8 per complete connection.
C7_BonusOncePerCompleteConnection ==
    /\ SumOver(agent_memo_wallet, Agents) = 8 * Complete(connection)
    /\ memo_supply =
          SumOver([h \in UserIdHashes |->
                      IF user_account[h] = NoAccount THEN 0
                      ELSE user_account[h].total_me_locked], UserIdHashes)
          + 8 * FlagsSet(connection_account)
          + 8 * Complete(connection_account)

\* C8: an unlock whose caller is a user that is neither identity A nor
\* identity B of the connection fails with UnauthorizedUser in every state of
\* the connection and for every secret, and changes nothing.
C8_OutsiderUnauthorized ==
    [][ /\ UnlockConnectionStep /\ res'.conn \in Created(connection_account)
           /\ res'.acct \in Registered(user_account)
           /\ ~Party(connection_account[res'.conn], res'.acct)
           => res'.err = "UnauthorizedUser" /\ UNCHANGED utp_vars
        /\ UnlockWithPinStep /\ res'.conn \in Created(connection)
           /\ ~Party(connection[res'.conn], res'.acct)
           => res'.err = "UnauthorizedUser" /\ UNCHANGED hc_vars
      ]_vars

\* C9: every connection record has identity A different from identity B, and
\* a creation request with the same identity for both is rejected and changes
\* nothing.
C9_DistinctParties ==
    [][ /\ \A c \in ConnectionIds :
              connection_account'[c] /= NoAccount
              => connection_account'[c].user_a /= connection_account'[c].user_b
        /\ \A h \in ConnectionIdHashes :
              connection'[h] /= NoAccount
              => connection'[h].user_a /= connection'[h].user_b
        /\ CreateConnectionStep(res'.acct)
           => res'.err /= "Ok" /\ UNCHANGED utp_vars
        /\ (\E id \in HcConnectionIds : InitializeConnectionStep(id, res'.acct))
           => res'.err /= "Ok" /\ UNCHANGED hc_vars
      ]_vars

\* C10: a creation request for a connection id that already has a record is
\* rejected and changes nothing: the existing record keeps its parties,
\* commitments and flags and no second record is created for the id.
C10_DuplicateConnectionRejected ==
    [][ /\ (\E b \in UserBKeys : CreateConnectionStep(b))
           /\ res'.conn \in Created(connection_account)
           => res'.err = "AccountAlreadyInUse" /\ UNCHANGED utp_vars
        /\ \A id \in HcConnectionIds :
              (\E b \in UserBPdas : InitializeConnectionStep(id, b))
              /\ (\E g \in Created(connection) : connection[g].connection_id = id)
              => res'.err = "AccountAlreadyInUse" /\ UNCHANGED hc_vars
      ]_vars

----------------------------------------------------------------------------
(* Registration *)

\* an initialize_user step that carries the user id `user_id`
InitializeUserWith(user_id) ==
    res'.op = "initialize_user" /\ InitializeUser(user_id, res'.acct)

\* the user accounts registered under the user id `user_id`
AccountsOf(user_id) ==
    {h \in Registered(user_account) : user_account[h].user_id = UserIdArray(user_id)}

\* C11: at most one user account exists per user id: once a user id is
\* registered, every initialize_user carrying the same user id, whatever
\* user_id_hash comes with it, is rejected, changes no user account and mints
\* no second initial grant.
C11_OneAccountPerUserId ==
    [][ \A id \in UserIds :
           /\ Cardinality(AccountsOf(id)) <= 1
           /\ InitializeUserWith(id) /\ AccountsOf(id) /= {}
              => /\ res'.err = "AccountAlreadyInUse"
                 /\ UNCHANGED <<user_account, me_mint_supply, user_me_ata>>
      ]_vars

----------------------------------------------------------------------------
(* User statistics and locking *)

\* C12: across every step, whatever instruction it processes and whether the
\* instruction succeeds or is rejected, a user account stays in existence and
\* its total_me_minted, total_me_locked, total_memo_earned and
\* connections_count do not decrease.
C12_CountersNeverDecrease ==
    [][ \A h \in Registered(user_account) :
           /\ user_account'[h] /= NoAccount
           /\ user_account'[h].total_me_minted >= user_account[h].total_me_minted
           /\ user_account'[h].total_me_locked >= user_account[h].total_me_locked
           /\ user_account'[h].total_memo_earned >= user_account[h].total_memo_earned
           /\ user_account'[h].connections_count >= user_account[h].connections_count
      ]_vars

\* an account that has minted daily and unlocked a connection has just been
\* refused a lock
C12_Witness ==
    /\ res.op = "lock_me_for_memo" /\ res.err = "MintMismatch"
    /\ user_account[res.acct].total_me_minted > INITIAL_ME_MINT
    /\ user_account[res.acct].connections_count = 1
    /\ user_account[res.acct].total_memo_earned = CONNECTION_MEMO_REWARD

\* a lock_me_for_memo step with the instruction data `d`
LockMeForMemoStep(d) ==
    /\ res'.op = "lock_me_for_memo"
    /\ res'.acct = d.user_id_hash
    /\ \E oc \in BOOLEAN : LockMeForMemo(d.amount, d.user_id_hash, oc)

\* C13: a lock of an amount greater than 0 and at most the caller's ME
\* balance succeeds and has exactly this effect: the caller's ME balance
\* decreases and the escrow balance increases by the amount, the amount of MEMO
\* is minted, total_me_locked and total_memo_earned increase by the amount, and
\* the quota fields and every other account are unchanged.
C13_LockEffect ==
    [][ \A d \in LockData :
           LockMeForMemoStep(d) /\ d.user_id_hash \in Registered(user_account)
           /\ d.amount.wraps = 0 /\ d.amount.tokens > 0
           /\ d.amount.tokens <= user_me_ata[d.user_id_hash][d.user_id_hash]
           => LET h == d.user_id_hash  n == d.amount.tokens IN
              /\ res'.err = "Ok"
              /\ user_me_ata' = [user_me_ata EXCEPT ![h][h] = @ - n]
              /\ me_escrow' = me_escrow + n
              /\ memo_supply' = memo_supply + n
              /\ user_account' = [user_account EXCEPT
                    ![h] = [@ EXCEPT !.total_me_locked = @ + n,
                                     !.total_memo_earned = @ + n]]
              /\ UNCHANGED <<global_state, connection_account, me_mint_supply>>
      ]_vars

\* C14: a lock of amount 0 fails with InvalidAmount and a lock of more than
\* the caller's ME balance fails with InsufficientFunds; in both cases no
\* balance, no supply and no account changes.
C14_LockRejected ==
    [][ \A d \in LockData :
           LockMeForMemoStep(d) /\ d.user_id_hash \in Registered(user_account)
           => /\ ~AmountPositive(d.amount)
                 => res'.err = "InvalidAmount" /\ UNCHANGED utp_vars
              /\ \/ d.amount.wraps > 0
                 \/ d.amount.tokens > user_me_ata[d.user_id_hash][d.user_id_hash]
                 => res'.err = "InsufficientFunds" /\ UNCHANGED utp_vars
      ]_vars

----------------------------------------------------------------------------
(* Escrow and global state *)

\* the ME locked according to the user accounts
TotalLocked(accounts) ==
    SumOver([h \in DOMAIN accounts |->
                IF accounts[h] = NoAccount THEN 0 ELSE accounts[h].total_me_locked],
            DOMAIN accounts)

\* C15: no step decreases the balance of an escrow account (me_escrow of
\* unified-token-program, the escrow wallet of each human-connection record),
\* and in unified-token-program the escrow balance equals the sum of
\* total_me_locked over all user accounts.
C15_EscrowOneDirectional ==
    [][ /\ me_escrow' >= me_escrow
        /\ \A h \in ConnectionIdHashes : escrow_me_wallet'[h] >= escrow_me_wallet[h]
        /\ me_escrow' = TotalLocked(user_account')
      ]_vars

\* a human-connection escrow still holds the 24 ME locked at creation after
\* both parties have unlocked and been rewarded
C15_Witness ==
    /\ res.op = "unlock_with_pin" /\ res.err = "Ok"
    /\ BothUnlocked(connection[res.conn])
    /\ escrow_me_wallet[res.conn] = ME_LOCK_AMOUNT

\* C16: total_connections equals the number of connection records; a
\* successful create_connection creates one record with both flags false and
\* increases total_connections by exactly 1, and no other step changes it.
C16_TotalConnections ==
    [][ /\ IF global_state' = NoAccount
           THEN Created(connection_account') = {}
           ELSE global_state'.total_connections =
                   Cardinality(Created(connection_account'))
        /\ (\E b \in UserBKeys : CreateConnectionStep(b)) /\ res'.err = "Ok"
           => /\ global_state'.total_connections = global_state.total_connections + 1
              /\ connection_account[res'.conn] = NoAccount
              /\ connection_account'[res'.conn] /= NoAccount
              /\ ~connection_account'[res'.conn].user_a_unlocked
              /\ ~connection_account'[res'.conn].user_b_unlocked
        /\ global_state /= NoAccount
           /\ global_state'.total_connections /= global_state.total_connections
           => /\ res'.op = "create_connection" /\ res'.err = "Ok"
              /\ \E b \in UserBKeys : CreateConnectionStep(b)
      ]_vars

\* after a connection was created, an unlock and a rejected creation have
\* left the counter at 1
C16_Witness ==
    /\ res.op = "create_connection" /\ res.err = "AccountAlreadyInUse"
    /\ global_state.total_connections = 1
    /\ connection_account[res.conn].user_a_unlocked

\* an initialize_global step signed by `admin`
InitializeGlobalStep ==
    res'.op = "initialize_global" /\ InitializeGlobal(res'.acct)

\* C17: global_state is created once: an initialize_global on an existing
\* global_state fails and changes nothing; once created, global_state stays
\* in existence with the same admin, memo_mint and me_escrow, and its
\* total_users and total_connections never decrease.
C17_GlobalStateCreatedOnce ==
    [][ /\ InitializeGlobalStep /\ global_state /= NoAccount
           => res'.err = "AccountAlreadyInUse" /\ UNCHANGED utp_vars
        /\ global_state /= NoAccount
           => /\ global_state' /= NoAccount
              /\ global_state'.admin = global_state.admin
              /\ global_state'.memo_mint = global_state.memo_mint
              /\ global_state'.me_escrow = global_state.me_escrow
              /\ global_state'.total_users >= global_state.total_users
              /\ global_state'.total_connections >= global_state.total_connections
      ]_vars

\* another admin has tried to initialize the global state again after a
\* connection was created
C17_Witness ==
    /\ res.op = "initialize_global" /\ res.err = "AccountAlreadyInUse"
    /\ res.acct /= global_state.admin
    /\ global_state.total_connections = 1

----------------------------------------------------------------------------
(* Rejected daily mint *)

----------------------------------------------------------------------------
(* Frame and order of the unlocks *)

\* the record `conn` with nothing but the flag of `user`'s side set
WithOwnFlagSet(conn, user) ==
    IF user = conn.user_a
    THEN [conn EXCEPT !.user_a_unlocked = TRUE]
    ELSE [conn EXCEPT !.user_b_unlocked = TRUE]

\* C19: a successful unlock changes, in its connection record, only the
\* caller's own flag, from false to true: the counterpart's flag, both
\* commitments, both identities and created_at stay; no other connection
\* record changes and no user account (reward wallet in human-connection)
\* other than the caller's changes.
C19_UnlockFrame ==
    [][ /\ UnlockConnectionStep /\ res'.err = "Ok"
           => LET c == res'.conn  u == res'.acct IN
              /\ ~OwnFlag(connection_account[c], u)
              /\ connection_account' = [connection_account EXCEPT
                    ![c] = WithOwnFlagSet(@, u)]
              /\ \A h \in UserIdHashes \ {u} : user_account'[h] = user_account[h]
              /\ UNCHANGED <<global_state, me_mint_supply, user_me_ata, me_escrow>>
        /\ UnlockWithPinStep /\ res'.err = "Ok"
           => LET c == res'.conn  u == res'.acct IN
              /\ ~OwnFlag(connection[c], u)
              /\ connection' = [connection EXCEPT ![c] = WithOwnFlagSet(@, u)]
              /\ \A w \in UserPdas \ {u} : user_memo_wallet'[w] = user_memo_wallet[w]
              /\ UNCHANGED <<escrow_me_wallet, user_a_me_wallet>>
      ]_vars

\* identity B has unlocked first: its flag is set and identity A's is not
C19_Witness ==
    /\ res.op = "unlock_connection" /\ res.err = "Ok"
    /\ res.acct = connection_account[res.conn].user_b
    /\ connection_account[res.conn].user_b_unlocked
    /\ ~connection_account[res.conn].user_a_unlocked
    /\ user_account[connection_account[res.conn].user_a].connections_count = 0

\* the caller is identity A and submits the secret committed in pin_b_hash
ValidUnlockOfA(conn, user, pin) ==
    user = conn.user_a /\ Sha256(pin) = conn.pin_b_hash

\* the caller is identity B and submits the secret committed in pin_a_hash
ValidUnlockOfB(conn, user, pin) ==
    user = conn.user_b /\ Sha256(pin) = conn.pin_a_hash

\* C20: the valid unlocks of identity A and of identity B can be applied in
\* either order with the same result: the valid unlock of a side whose flag is
\* unset succeeds whether or not the other side has unlocked before, sets that
\* side's flag and keeps the other, and credits the caller 8 MEMO; the unlock
\* applied second sees the first flag set, so that both flags are true after
\* it (and human-connection mints the agent bonus in that step only).
C20_UnlockOrderIndependent ==
    [][ /\ UnlockConnectionStep /\ res'.conn \in Created(connection_account)
           /\ res'.acct \in Registered(user_account)
           => LET c == res'.conn  u == res'.acct
                  conn == connection_account[c]
                  new  == connection_account'[c]
                  paid == /\ res'.err = "Ok"
                          /\ memo_supply' = memo_supply + 8
                          /\ user_account'[u].total_memo_earned =
                                user_account[u].total_memo_earned + 8
              IN  /\ ValidUnlockOfA(conn, u, res'.pin) /\ ~conn.user_a_unlocked
                     => /\ paid
                        /\ new.user_a_unlocked
                        /\ new.user_b_unlocked = conn.user_b_unlocked
                  /\ ValidUnlockOfB(conn, u, res'.pin) /\ ~conn.user_b_unlocked
                     => /\ paid
                        /\ new.user_b_unlocked
                        /\ new.user_a_unlocked = conn.user_a_unlocked
        /\ UnlockWithPinStep /\ res'.conn \in Created(connection)
           => LET c == res'.conn  u == res'.acct
                  conn == connection[c]
                  new  == connection'[c]
                  paid == /\ res'.err = "Ok"
                          /\ user_memo_wallet'[u] = user_memo_wallet[u] + 8
                  bonus == SumOver(agent_memo_wallet', Agents)
                           - SumOver(agent_memo_wallet, Agents)
              IN  /\ ValidUnlockOfA(conn, u, res'.pin) /\ ~conn.user_a_unlocked
                     => /\ paid
                        /\ new.user_a_unlocked
                        /\ new.user_b_unlocked = conn.user_b_unlocked
                        /\ bonus = IF conn.user_b_unlocked THEN 8 ELSE 0
                  /\ ValidUnlockOfB(conn, u, res'.pin) /\ ~conn.user_b_unlocked
                     => /\ paid
                        /\ new.user_b_unlocked
                        /\ new.user_a_unlocked = conn.user_a_unlocked
                        /\ bonus = IF conn.user_a_unlocked THEN 8 ELSE 0
      ]_vars

----------------------------------------------------------------------------
(* Who receives what is minted *)

\* C21: in unified-token-program the reward of an unlock that sets the flag
\* of user X is credited to a MEMO account that belongs to X: every
\* successful unlock_connection for X's user account adds
\* CONNECTION_MEMO_REWARD to the MEMO account of X's own wallet, so nobody
\* else, X's counterpart included, can set X's flag and collect the reward.
C21_RewardToUnlockingIdentity ==
    [][ UnlockConnectionStep /\ res'.err = "Ok"
        => user_memo_ata'[res'.acct] =
              user_memo_ata[res'.acct] + CONNECTION_MEMO_REWARD
      ]_vars

\* C22: every daily mint that consumes the quota of user U credits what it
\* mints to a balance that belongs to U (the ME account of U's own wallet in
\* unified-token-program, U's me_wallet in me-token): no other requester can
\* consume U's quota and receive the tokens.
C22_DailyMintToQuotaOwner ==
    [][ /\ MintDailyMeStep /\ res'.err = "Ok"
           => LET u == res'.acct IN
              user_me_ata'[u][u] - user_me_ata[u][u] =
                 user_account'[u].total_me_minted - user_account[u].total_me_minted
        /\ MintDailyStep /\ res'.err = "Ok"
           => LET u == res'.acct IN
              /\ user_me_account'[u].total_minted > user_me_account[u].total_minted
              /\ user_me_wallet'[u] - user_me_wallet[u] =
                    user_me_account'[u].total_minted - user_me_account[u].total_minted
      ]_vars

----------------------------------------------------------------------------
(* User counter *)

\* C23: in every reachable state of unified-token-program the total_users
\* counter of the global state equals the number of user accounts that have
\* been registered.
C23_TotalUsers ==
    Utp /\ global_state /= NoAccount
    => global_state.total_users = Cardinality(Registered(user_account))

----------------------------------------------------------------------------
(* Rate of the daily mint *)

\* the most a user registered at `registered_at` can have been minted by `clock`
MintedAtMost(grant, limit, day, registered_at, clock) ==
    grant + limit * ((clock - registered_at) \div day)

\* C24: under the non-decreasing clock, a daily mint of a user succeeds no
\* sooner than one day after the user's registration and no sooner than one
\* day after the user's previous successful daily mint, and at every time t
\* the lifetime total of a user is at most
\* 48 + 24 * floor((t - registration time) / 86400).
C24_RateLimit ==
    /\ [](/\ \A u \in Registered(user_account) :
                user_account[u].total_me_minted <=
                   MintedAtMost(INITIAL_ME_MINT, DAILY_ME_LIMIT, DAY_IN_SECONDS,
                                user_mint_history[u].registered_at, now)
          /\ \A u \in Registered(user_me_account) :
                user_me_account[u].total_minted <=
                   MintedAtMost(INITIAL_MINT, DAILY_LIMIT, ME_DAY_IN_SECONDS,
                                me_mint_history[u].registered_at, now))
    /\ [][ /\ now' >= now
           /\ MintDailyMeStep /\ res'.err = "Ok"
              => LET h == user_mint_history[res'.acct] IN
                 /\ now - h.registered_at >= DAY_IN_SECONDS
                 /\ h.mints > 0 => now - h.last_mint >= DAY_IN_SECONDS
           /\ MintDailyStep /\ res'.err = "Ok"
              => LET h == me_mint_history[res'.acct] IN
                 /\ now - h.registered_at >= ME_DAY_IN_SECONDS
                 /\ h.mints > 0 => now - h.last_mint >= ME_DAY_IN_SECONDS
         ]_vars

\* a second daily mint of a user has succeeded, MaxDays - 1 days after the
\* first one
C24_Witness ==
    /\ res.op = "mint_daily" /\ res.err = "Ok"
    /\ me_mint_history[res.acct].mints = 2
    /\ me_mint_history[res.acct].registered_at = 0
    /\ user_me_account[res.acct].total_minted = INITIAL_MINT + 2 * DAILY_LIMIT

\* C25: a successful daily mint mints exactly 24 tokens; a daily mint of a
\* registered user succeeds exactly when now - last_mint_time >= 86400; the
\* stored daily_minted_today of a user is always 48 (registered, never minted
\* since) or 24; and the lifetime total is 48 + 24 * (the number of the
\* user's successful daily mints).
C25_OneShotQuota ==
    /\ [](/\ \A u \in Registered(user_account) :
                /\ user_account[u].daily_minted_today \in {INITIAL_ME_MINT, DAILY_ME_LIMIT}
                /\ user_account[u].total_me_minted =
                      INITIAL_ME_MINT + DAILY_ME_LIMIT * user_mint_history[u].mints
          /\ \A u \in Registered(user_me_account) :
                /\ user_me_account[u].daily_minted_today \in {INITIAL_MINT, DAILY_LIMIT}
                /\ user_me_account[u].total_minted =
                      INITIAL_MINT + DAILY_LIMIT * me_mint_history[u].mints)
    /\ [][ /\ MintDailyMeStep /\ res'.acct \in Registered(user_account)
              => LET u == res'.acct IN
                 /\ res'.err = "Ok"
                       <=> now - user_account[u].last_mint_time >= DAY_IN_SECONDS
                 /\ res'.err = "Ok"
                       => /\ me_mint_supply'[u] = me_mint_supply[u] + DAILY_ME_LIMIT
                          /\ user_account'[u].total_me_minted =
                                user_account[u].total_me_minted + DAILY_ME_LIMIT
           /\ MintDailyStep /\ res'.acct \in Registered(user_me_account)
              => LET u == res'.acct IN
                 /\ res'.err = "Ok"
                       <=> now - user_me_account[u].last_mint_time >= ME_DAY_IN_SECONDS
                 /\ res'.err = "Ok"
                       => /\ user_me_wallet'[u] = user_me_wallet[u] + DAILY_LIMIT
                          /\ user_me_account'[u].total_minted =
                                user_me_account[u].total_minted + DAILY_LIMIT
         ]_vars

\* a user's second daily mint has succeeded in unified-token-program
C25_Witness ==
    /\ res.op = "mint_daily_me" /\ res.err = "Ok"
    /\ user_account[res.acct].daily_minted_today = DAILY_ME_LIMIT
    /\ user_account[res.acct].last_mint_time = now
    /\ user_mint_history[res.acct].mints = 2

----------------------------------------------------------------------------
(* User statistics of unified-token-program *)

\* C26: in every reachable state every user account of unified-token-program
\* has total_memo_earned = total_me_locked + 8 * connections_count.
C26_RewardEarned ==
    \A u \in Registered(user_account) :
       user_account[u].total_memo_earned =
          user_account[u].total_me_locked
          + CONNECTION_MEMO_REWARD * user_account[u].connections_count

\* a user has unlocked its side of a connection and has locked nothing
C26_Witness ==
    \E u \in Registered(user_account) :
       /\ user_account[u].connections_count = 1
       /\ user_account[u].total_me_locked = 0
       /\ user_account[u].total_memo_earned = CONNECTION_MEMO_REWARD

\* the connection records in which the flag of the user's own side is set
UnlockedBy(records, user) ==
    {c \in Created(records) : Party(records[c], user) /\ OwnFlag(records[c], user)}

\* C27: in every reachable state of unified-token-program the
\* connections_count of a user is the number of connection records in which
\* the user's own flag is set, and creating a connection changes no
\* connections_count.
C27_ConnectionsCount ==
    /\ [](\A u \in Registered(user_account) :
             user_account[u].connections_count =
                Cardinality(UnlockedBy(connection_account, u)))
    /\ [][ \A b \in UserBKeys :
              CreateConnectionStep(b)
              => \A u \in Registered(user_account) :
                    user_account'[u].connections_count =
                       user_account[u].connections_count
         ]_vars

\* both parties of a connection have unlocked their sides
C27_Witness ==
    \E c \in Created(connection_account) :
       /\ BothUnlocked(connection_account[c])
       /\ user_account[connection_account[c].user_a].connections_count = 1
       /\ user_account[connection_account[c].user_b].connections_count = 1

----------------------------------------------------------------------------
(* Reward of a connection in human-connection *)

\* C28: in every reachable state of human-connection the MEMO minted on
\* account of a connection (to identity A, to identity B and to the agent) is
\* at most the 24 ME locked in its escrow, and it is 24 exactly when both
\* flags of the connection are set; the reward wallets hold what has been
\* minted on account of the connections.
C28_RewardWithinLock ==
    /\ \A c \in Created(connection) :
          /\ escrow_me_wallet[c] = ME_LOCK_AMOUNT
          /\ connection_reward[c] <= escrow_me_wallet[c]
          /\ connection_reward[c] = ME_LOCK_AMOUNT <=> BothUnlocked(connection[c])
    /\ SumOver(user_memo_wallet, UserPdas) + SumOver(agent_memo_wallet, Agents) =
          SumOver(connection_reward, ConnectionIdHashes)

\* a connection is complete and 24 MEMO have been minted on its account
C28_Witness ==
    \E c \in Created(connection) :
       /\ BothUnlocked(connection[c])
       /\ connection_reward[c] = ME_LOCK_AMOUNT
       /\ res.op = "unlock_with_pin" /\ res.err = "Ok" /\ res.conn = c

----------------------------------------------------------------------------
(* Scaling of the lock amount *)

----------------------------------------------------------------------------
(* The quota comes back *)

\* the instructions that read or write the quota of a user, and the clock
QuotaNext ==
    \/ Tick
    \/ \E admin \in Admins : InitializeGlobal(admin)
    \/ \E user_id \in UserIds, h \in RegistrationHashes(now) : InitializeUser(user_id, h)
    \/ \E r \in MintRequests : MintDailyMe(r[1], r[2])
    \/ \E user_id \in UserIds, h \in MeUserIdHashes : RegisterAndMintInitial(user_id, h)
    \/ \E h \in MeUserIdHashes : MintDaily(h)

\* The clock advances up to the last instant observed, and every user keeps
\* asking for its daily mint with its own wallet.
LiveSpec ==
    /\ Init
    /\ [][QuotaNext]_vars
    /\ WF_vars(Tick)
    /\ \A r \in {q \in MintRequests : q[1] = q[2]} : WF_vars(MintDailyMe(r[1], r[2]))
    /\ \A h \in MeUserIdHashes : WF_vars(MintDaily(h))

\* the last instant the clock reaches
Horizon == MaxDays * DAY_IN_SECONDS

\* C30: the exhaustion of the quota is never permanent: a daily mint asked for
\* when the clock has reached last_mint_time + 86400 succeeds, and, the clock
\* advancing and the user retrying, every rejection with DailyLimitReached
\* whose quota window ends before the last instant observed is followed by a
\* successful daily mint of that user's quota.
C30_QuotaComesBack ==
    /\ [][ /\ MintDailyMeStep /\ res'.acct \in Registered(user_account)
              /\ now >= user_account[res'.acct].last_mint_time + DAY_IN_SECONDS
              => res'.err = "Ok"
           /\ MintDailyStep /\ res'.acct \in Registered(user_me_account)
              /\ now >= user_me_account[res'.acct].last_mint_time + ME_DAY_IN_SECONDS
              => res'.err = "Ok"
         ]_vars
    /\ \A u \in {q[1] : q \in MintRequests} :
          (/\ res.op = "mint_daily_me" /\ res.err = "DailyLimitReached" /\ res.acct = u
           /\ user_account[u].last_mint_time + DAY_IN_SECONDS <= Horizon)
          ~> (res.op = "mint_daily_me" /\ res.err = "Ok" /\ res.acct = u)
    /\ \A u \in MeUserIdHashes :
          (/\ res.op = "mint_daily" /\ res.err = "DailyLimitReached" /\ res.acct = u
           /\ user_me_account[u].last_mint_time + ME_DAY_IN_SECONDS <= Horizon)
          ~> (res.op = "mint_daily" /\ res.err = "Ok" /\ res.acct = u)

\* a daily mint has been rejected at the limit one second before the end of
\* the user's quota window
C30_Witness ==
    /\ res.op = "mint_daily_me" /\ res.err = "DailyLimitReached"
    /\ res.payer = res.acct
    /\ now = user_account[res.acct].last_mint_time + DAY_IN_SECONDS - 1

----------------------------------------------------------------------------
(* Every connection can complete *)

\* the instructions that create and unlock connections, with what they need
ConnectionNext ==
    \/ \E admin \in Admins : InitializeGlobal(admin)
    \/ \E user_id \in UserIds, h \in RegistrationHashes(now) : InitializeUser(user_id, h)
    \/ \E c \in ConnectionIds, a \in UserAKeys, b \in UserBKeys,
          pa \in PinAHashes, pb \in PinBHashes : CreateConnection(c, a, b, pa, pb)
    \/ \E c \in ConnectionIds, r \in UnlockRequests, pin \in Pins :
          UnlockConnection(c, r[1], pin, r[2])
    \/ HcNext

\* the requests in which a party submits, with its own wallet, the secret its
\* counterpart committed to
PartyUnlockRequests(records) ==
    {q \in (DOMAIN records) \X UserIdHashes \X Pins :
        /\ records[q[1]] /= NoAccount
        /\ \/ ValidUnlockOfA(records[q[1]], q[2], q[3])
           \/ ValidUnlockOfB(records[q[1]], q[2], q[3])}

\* Both parties of every record keep submitting the secret of their
\* counterpart.
ConnectionLiveSpec ==
    /\ Init
    /\ [][ConnectionNext]_vars
    /\ \A c \in ConnectionIds, u \in UserIdHashes, pin \in Pins :
          WF_vars(/\ <<c, u, pin>> \in PartyUnlockRequests(connection_account)
                  /\ UnlockConnection(c, u, pin, u))
    /\ \A c \in ConnectionIdHashes, u \in UserPdas, pin \in Pins, agent \in Agents :
          WF_vars(/\ <<c, u, pin>> \in PartyUnlockRequests(connection)
                  /\ UnlockWithPin(c, u, agent, pin))

\* the record exists and both of its flags are set
Completed(records, c) ==
    records[c] /= NoAccount /\ BothUnlocked(records[c])

\* C31: every connection record that is created can complete: whatever
\* unlocks have been rejected before, identity A submitting the secret of
\* pin_b_hash and identity B submitting the secret of pin_a_hash succeed while
\* their own flag is unset, and, both parties being treated fairly, every
\* record reaches the state with both flags set.
C31_EveryConnectionCompletes ==
    /\ [][ /\ UnlockConnectionStep /\ res'.conn \in Created(connection_account)
              /\ res'.payer = res'.acct
              => LET conn == connection_account[res'.conn] IN
                 /\ ValidUnlockOfA(conn, res'.acct, res'.pin) /\ ~conn.user_a_unlocked
                    => res'.err = "Ok"
                 /\ ValidUnlockOfB(conn, res'.acct, res'.pin) /\ ~conn.user_b_unlocked
                    => res'.err = "Ok"
           /\ UnlockWithPinStep /\ res'.conn \in Created(connection)
              => LET conn == connection[res'.conn] IN
                 /\ ValidUnlockOfA(conn, res'.acct, res'.pin) /\ ~conn.user_a_unlocked
                    => res'.err = "Ok"
                 /\ ValidUnlockOfB(conn, res'.acct, res'.pin) /\ ~conn.user_b_unlocked
                    => res'.err = "Ok"
         ]_vars
    /\ \A c \in ConnectionIds :
          (c \in Created(connection_account)) ~> Completed(connection_account, c)
    /\ \A c \in ConnectionIdHashes :
          (c \in Created(connection)) ~> Completed(connection, c)

====
